---- MODULE Spec2Model ----
(***************************************************************************)
(* A model of the Intcode virtual machine of src/src/lib.rs: the struct    *)
(* Program, its public operations and the fetch-decode-execute step.       *)
(*                                                                         *)
(* Number is i64 and usize is u64 in the source.  TLC's integers are 32    *)
(* bits wide, so the model keeps the two's-complement arithmetic of the    *)
(* source but at a width of WordBits bits: every place where the source    *)
(* can overflow, wrap or reinterpret a sign bit does so here, at the       *)
(* scaled width.                                                           *)
(***************************************************************************)
EXTENDS Integers, Sequences, FiniteSets, TLC

VARIABLES
    program_vec,      \* the argument of Program::new (never changes)
    program,          \* Program.program, the primary segment
    sp,               \* Program.sp, the instruction pointer (usize)
    input,            \* Program.input
    input_pos,        \* Program.input_pos, the input read cursor
    output,           \* Program.output
    output_pos,       \* Program.output_pos, the output read cursor
    state,            \* Program.state
    extra_memory,     \* Program.extra_memory, a map from address to word
    relative_base,    \* Program.relative_base
    overflow_checks,  \* build profile: TRUE when arithmetic overflow panics
    pc,               \* where the owner is: "idle", "run_entry", "run_loop"
    panic,            \* the message of the panic that ended the thread, or "none"
    ret,              \* the last public call and the value it returned
    steps             \* instructions executed so far (bounded by MaxSteps)

vars == <<program_vec, program, sp, input, input_pos, output, output_pos, state,
          extra_memory, relative_base, overflow_checks, pc, panic, ret, steps>>

(***************************************************************************)
(* Bounds of the model.                                                    *)
(***************************************************************************)
MaxSteps == 8
MaxInput == 2

(***************************************************************************)
(* Number = i64, scaled.                                                   *)
(***************************************************************************)
WordBits == 16
WordMod == 2 ^ WordBits
WordMax == (2 ^ (WordBits - 1)) - 1
WordMin == 0 - (2 ^ (WordBits - 1))
HalfMax == (2 ^ ((WordBits \div 2) - 1)) - 1
InWord(x) == WordMin <= x /\ x <= WordMax
Wrap(x) == ((x - WordMin) % WordMod) + WordMin
\* `v as usize`: a negative word becomes a huge address
AsUsize(v) == IF v < 0 THEN v + WordMod ELSE v
\* `u as Number` is not used by the source; usize arithmetic wraps at WordMod
InUsize(x) == 0 <= x /\ x < WordMod

\* Rust's `/` and `%` truncate toward zero
TruncDiv(a, b) == IF a >= 0 THEN a \div b ELSE 0 - ((0 - a) \div b)
TruncRem(a, b) == a - b * TruncDiv(a, b)

Ok(v) == [ok |-> TRUE, val |-> v, msg |-> "none"]
Err(m) == [ok |-> FALSE, val |-> 0, msg |-> m]

\* i64 `a + b`: panics in a build with overflow checks, wraps otherwise
AddNumber(a, b, oc) ==
    IF InWord(a + b) THEN Ok(a + b)
    ELSE IF oc THEN Err("attempt to add with overflow")
    ELSE Ok(Wrap(a + b))

\* i64 `a * b`
MulNumber(a, b, oc) ==
    IF InWord(a * b) THEN Ok(a * b)
    ELSE IF oc THEN Err("attempt to multiply with overflow")
    ELSE Ok(Wrap(a * b))

\* usize `a + b`
AddUsize(a, b, oc) ==
    IF InUsize(a + b) THEN Ok(a + b)
    ELSE IF oc THEN Err("attempt to add with overflow")
    ELSE Ok((a + b) % WordMod)

(***************************************************************************)
(* Decoding.                                                               *)
(***************************************************************************)
ParameterModeFrom(i) ==
    CASE i = 0 -> Ok("Position")
      [] i = 1 -> Ok("Immediate")
      [] i = 2 -> Ok("Relative")
      [] OTHER -> Err("Unknown parameter mode")

OpcodeFrom(i) ==
    CASE i = 1 -> Ok("Add")
      [] i = 2 -> Ok("Multiply")
      [] i = 3 -> Ok("Input")
      [] i = 4 -> Ok("Output")
      [] i = 5 -> Ok("JumpIfTrue")
      [] i = 6 -> Ok("JumpIfFalse")
      [] i = 7 -> Ok("LessThan")
      [] i = 8 -> Ok("Equals")
      [] i = 9 -> Ok("RelativeBaseOffset")
      [] i = 99 -> Ok("Halt")
      [] OTHER -> Err("Unknown opcode")

\* mutant: the third mode digit is not converted (it falls back to Position)
InstructionOf_two_modes(opcode, param1, param2, param3) ==
    IF ~opcode.ok THEN opcode
    ELSE IF ~param1.ok THEN param1
    ELSE IF ~param2.ok THEN param2
    ELSE Ok([opcode |-> opcode.val, param1 |-> param1.val,
             param2 |-> param2.val,
             param3 |-> IF param3.ok THEN param3.val ELSE "Position"])

\* the struct Instruction, or the first panic of its four conversions
InstructionOf(opcode, param1, param2, param3) ==
    IF ~opcode.ok THEN opcode
    ELSE IF ~param1.ok THEN param1
    ELSE IF ~param2.ok THEN param2
    ELSE IF ~param3.ok THEN param3
    ELSE Ok([opcode |-> opcode.val, param1 |-> param1.val,
             param2 |-> param2.val, param3 |-> param3.val])

\* fn from(mut i: Number) -> Instruction
InstructionFrom(i) ==
    InstructionOf(OpcodeFrom(TruncRem(i, 100)),
                  ParameterModeFrom(TruncRem(TruncDiv(i, 100), 10)),
                  ParameterModeFrom(TruncRem(TruncDiv(TruncDiv(i, 100), 10), 10)),
                  ParameterModeFrom(
                      TruncRem(TruncDiv(TruncDiv(TruncDiv(i, 100), 10), 10), 10)))

(***************************************************************************)
(* The struct Program as a record, so that the private methods can be      *)
(* written as functions from Program to Program.                           *)
(***************************************************************************)
Self ==
    [program |-> program, sp |-> sp, input |-> input, input_pos |-> input_pos,
     output |-> output, output_pos |-> output_pos, state |-> state,
     extra_memory |-> extra_memory, relative_base |-> relative_base,
     panic |-> panic]

EmptyMap == [a \in {} |-> 0]

new(v) ==
    [program |-> v, sp |-> 0, input |-> <<>>, input_pos |-> 0,
     output |-> <<>>, output_pos |-> 0, state |-> "Running",
     extra_memory |-> EmptyMap, relative_base |-> 0, panic |-> "none"]

Panicked(p, msg) == [p EXCEPT !.panic = msg]

get_mem(p, pos) ==
    IF pos < Len(p.program) THEN p.program[pos + 1]
    ELSE IF pos \in DOMAIN p.extra_memory THEN p.extra_memory[pos]
    ELSE 0

\* mutant: a write beyond the primary segment is dropped
set_mem_primary_only(p, pos, val) ==
    IF pos < Len(p.program)
    THEN [p EXCEPT !.program = [p.program EXCEPT ![pos + 1] = val]]
    ELSE p

\* mutant: every write goes to the extension, the primary segment too
set_mem_always_extension(p, pos, val) ==
    [p EXCEPT !.extra_memory =
        [a \in (DOMAIN p.extra_memory) \cup {pos} |->
            IF a = pos THEN val ELSE p.extra_memory[a]]]

set_mem(p, pos, val) ==
    IF pos < Len(p.program)
    THEN [p EXCEPT !.program = [p.program EXCEPT ![pos + 1] = val]]
    ELSE [p EXCEPT !.extra_memory =
            [a \in (DOMAIN p.extra_memory) \cup {pos} |->
                IF a = pos THEN val ELSE p.extra_memory[a]]]

ModeOf(ins, n) ==
    CASE n = 1 -> ins.param1
      [] n = 2 -> ins.param2
      [] n = 3 -> ins.param3

\* the read at a Relative-mode address relative_base + value
ReadRelative(p, a) == IF a.ok THEN Ok(get_mem(p, AsUsize(a.val))) ELSE a

ParamValue(p, oc, value, mode) ==
    CASE mode = "Position" -> Ok(get_mem(p, AsUsize(value)))
      [] mode = "Immediate" -> Ok(value)
      [] mode = "Relative" -> ReadRelative(p, AddNumber(p.relative_base, value, oc))

ParamOf(p, n, oc, instruction, at) ==
    IF ~instruction.ok THEN instruction
    ELSE IF ~at.ok THEN at
    ELSE ParamValue(p, oc, get_mem(p, at.val), ModeOf(instruction.val, n))

\* fn param(&self, param: usize) -> Number
param(p, n, oc) ==
    ParamOf(p, n, oc, InstructionFrom(get_mem(p, p.sp)), AddUsize(p.sp, n, oc))

\* the Relative-mode position relative_base + pos
PosRelative(a) == IF a.ok THEN Ok(AsUsize(a.val)) ELSE a

\* mutant: a Relative write target is taken as a Position
PosValue_ignores_base(p, oc, pos, mode) ==
    CASE mode = "Position" -> Ok(AsUsize(pos))
      [] mode = "Immediate" -> Err("Can't get an immediate position!")
      [] mode = "Relative" -> Ok(AsUsize(pos))

PosValue(p, oc, pos, mode) ==
    CASE mode = "Position" -> Ok(AsUsize(pos))
      [] mode = "Immediate" -> Err("Can't get an immediate position!")
      [] mode = "Relative" -> PosRelative(AddNumber(p.relative_base, pos, oc))

PosOf(p, n, oc, instruction, at) ==
    IF ~instruction.ok THEN instruction
    ELSE IF ~at.ok THEN at
    ELSE PosValue(p, oc, get_mem(p, at.val), ModeOf(instruction.val, n))

\* fn get_pos(&self, param: usize) -> usize
get_pos(p, n, oc) ==
    PosOf(p, n, oc, InstructionFrom(get_mem(p, p.sp)), AddUsize(p.sp, n, oc))

Width(opcode) ==
    CASE opcode \in {"Add", "Multiply", "LessThan", "Equals"} -> 4
      [] opcode \in {"Input", "Output", "RelativeBaseOffset"} -> 2
      [] opcode \in {"JumpIfTrue", "JumpIfFalse"} -> 3
      [] opcode = "Halt" -> 0

SetSp(p, s) == IF s.ok THEN [p EXCEPT !.sp = s.val] ELSE Panicked(p, s.msg)

IncreaseBy(p, oc, instruction) ==
    IF ~instruction.ok THEN Panicked(p, instruction.msg)
    ELSE SetSp(p, AddUsize(p.sp, Width(instruction.val.opcode), oc))

\* fn increase_sp(&mut self): decodes the word that is at sp NOW
increase_sp(p, oc) == IncreaseBy(p, oc, InstructionFrom(get_mem(p, p.sp)))

\* mutant: the value goes through a cast to the half-width integer type
HalfMod == 2 ^ (WordBits \div 2)
push_output_narrowed(p, i) ==
    [p EXCEPT !.output =
        Append(p.output, ((i + (HalfMod \div 2)) % HalfMod) - (HalfMod \div 2))]

push_output(p, i) == [p EXCEPT !.output = Append(p.output, i)]

\* mutant: reads the newest input instead of the one under the cursor
get_input_newest(p) ==
    [value |-> p.input[Len(p.input)],
     self |-> [p EXCEPT !.input_pos = p.input_pos + 1]]

\* fn get_input(&mut self) -> Number: the cursor moves as the value is read
get_input(p) ==
    [value |-> p.input[p.input_pos + 1],
     self |-> [p EXCEPT !.input_pos = p.input_pos + 1]]

\* the value the arms Add, Multiply, LessThan and Equals store
Compute(opcode, a, b, oc) ==
    CASE opcode = "Add" -> AddNumber(a, b, oc)
      [] opcode = "Multiply" -> MulNumber(a, b, oc)
      [] opcode = "LessThan" -> Ok(IF a < b THEN 1 ELSE 0)
      [] opcode = "Equals" -> Ok(IF a = b THEN 1 ELSE 0)

StoreResult(p, pos, r) ==
    IF r.ok THEN set_mem(p, pos, r.val) ELSE Panicked(p, r.msg)

Store3Of(p, oc, opcode, pos, p1, p2) ==
    IF ~pos.ok THEN Panicked(p, pos.msg)
    ELSE IF ~p1.ok THEN Panicked(p, p1.msg)
    ELSE IF ~p2.ok THEN Panicked(p, p2.msg)
    ELSE StoreResult(p, pos.val, Compute(opcode, p1.val, p2.val, oc))

\* The arms Add, Multiply, LessThan and Equals: get_pos(3), then param(1),
\* param(2), the operation, set_mem.
Store3(p, oc, opcode) ==
    Store3Of(p, oc, opcode, get_pos(p, 3, oc), param(p, 1, oc), param(p, 2, oc))

\* set_mem(self.get_pos(1) as usize, input), after get_input has run
StoreInput(g, pos) ==
    IF pos.ok THEN set_mem(g.self, pos.val, g.value) ELSE Panicked(g.self, pos.msg)

\* The arm Input
ExecInput(p, oc) ==
    IF Len(p.input) > p.input_pos
    THEN StoreInput(get_input(p), get_pos(get_input(p).self, 1, oc))
    ELSE [p EXCEPT !.state = "WaitingForInput"]

PushOrPanic(p, p1) ==
    IF p1.ok THEN push_output(p, p1.val) ELSE Panicked(p, p1.msg)

\* The arm Output
ExecOutput(p, oc) == PushOrPanic(p, param(p, 1, oc))

\* mutant: the target is taken as an offset from the instruction pointer
JumpTo_relative(p, p2) ==
    IF p2.ok THEN [p EXCEPT !.sp = (p.sp + AsUsize(p2.val)) % WordMod]
    ELSE Panicked(p, p2.msg)

JumpTo(p, p2) ==
    IF p2.ok THEN [p EXCEPT !.sp = AsUsize(p2.val)] ELSE Panicked(p, p2.msg)

JumpOf(p, oc, ifTrue, p1) ==
    IF ~p1.ok THEN Panicked(p, p1.msg)
    ELSE IF (p1.val # 0) = ifTrue THEN JumpTo(p, param(p, 2, oc))
    ELSE p

\* The arms JumpIfTrue (taken when p1 # 0) and JumpIfFalse (when p1 = 0)
ExecJump(p, oc, ifTrue) == JumpOf(p, oc, ifTrue, param(p, 1, oc))

TakenOf(ifTrue, p1) == p1.ok /\ ((p1.val # 0) = ifTrue)

JumpTaken(p, oc, ifTrue) == TakenOf(ifTrue, param(p, 1, oc))

AddToBase(p, r) ==
    IF r.ok THEN [p EXCEPT !.relative_base = r.val] ELSE Panicked(p, r.msg)

BaseOf(p, oc, p1) ==
    IF ~p1.ok THEN Panicked(p, p1.msg)
    ELSE AddToBase(p, AddNumber(p.relative_base, p1.val, oc))

\* The arm RelativeBaseOffset
ExecRelativeBaseOffset(p, oc) == BaseOf(p, oc, param(p, 1, oc))

\* The arm Halt
ExecHalt(p) == [p EXCEPT !.state = "Halted"]

\* the match on instruction.opcode
ExecArm(p, oc, opcode) ==
    CASE opcode \in {"Add", "Multiply", "LessThan", "Equals"} -> Store3(p, oc, opcode)
      [] opcode = "Input" -> ExecInput(p, oc)
      [] opcode = "Output" -> ExecOutput(p, oc)
      [] opcode = "JumpIfTrue" -> ExecJump(p, oc, TRUE)
      [] opcode = "JumpIfFalse" -> ExecJump(p, oc, FALSE)
      [] opcode = "RelativeBaseOffset" -> ExecRelativeBaseOffset(p, oc)
      [] opcode = "Halt" -> ExecHalt(p)

\* mutant: the blocked Input and the taken jumps do not clear bump_sp
BumpSp_always(p, oc, opcode) == TRUE

\* the value of bump_sp after the match
BumpSp(p, oc, opcode) ==
    CASE opcode = "Input" -> Len(p.input) > p.input_pos
      [] opcode = "JumpIfTrue" -> ~JumpTaken(p, oc, TRUE)
      [] opcode = "JumpIfFalse" -> ~JumpTaken(p, oc, FALSE)
      [] OTHER -> TRUE

\* if bump_sp { self.increase_sp(); }
Finish(q, bump_sp, oc) ==
    IF q.panic # "none" THEN q
    ELSE IF bump_sp THEN increase_sp(q, oc)
    ELSE q

Dispatch(p, oc, instruction) ==
    IF ~instruction.ok THEN Panicked(p, instruction.msg)
    ELSE IF p.state = "Halted"
    THEN Panicked(p, "Attempted to run a halted program.")
    ELSE Finish(ExecArm(p, oc, instruction.val.opcode),
                BumpSp(p, oc, instruction.val.opcode), oc)

\* fn execute_instruction(&mut self)
execute_instruction(p, oc) == Dispatch(p, oc, InstructionFrom(get_mem(p, p.sp)))

halted(p) == p.state = "Halted"

\* mutant: WaitingForInput is answered as Running is
halted_or_blocked_only_halted(p) == p.state = "Halted"

halted_or_blocked(p) == p.state \in {"Halted", "WaitingForInput"}

has_output(p) == p.output_pos < Len(p.output)

None == [some |-> FALSE, value |-> 0]
Some(v) == [some |-> TRUE, value |-> v]

last_output(p) ==
    IF Len(p.output) > 0 THEN Some(p.output[Len(p.output)]) ELSE None

\* mutant: returns the newest output instead of the oldest unread one
get_output_newest(p) ==
    IF p.output_pos < Len(p.output)
    THEN [self |-> [p EXCEPT !.output_pos = p.output_pos + 1],
          result |-> [some |-> TRUE, value |-> p.output[Len(p.output)]]]
    ELSE [self |-> p, result |-> [some |-> FALSE, value |-> 0]]

\* mutant: the value read is removed from the queue
get_output_removing(p) ==
    IF p.output_pos < Len(p.output)
    THEN [self |-> [p EXCEPT !.output = Tail(p.output)],
          result |-> [some |-> TRUE, value |-> Head(p.output)]]
    ELSE [self |-> p, result |-> [some |-> FALSE, value |-> 0]]

\* fn get_output(&mut self) -> Option<Number>
get_output(p) ==
    IF has_output(p)
    THEN [self |-> [p EXCEPT !.output_pos = p.output_pos + 1],
          result |-> Some(p.output[p.output_pos + 1])]
    ELSE [self |-> p, result |-> None]

\* mutant: the input is queued and a blocked program stays blocked
push_input_keeps_blocked(p, i) == [p EXCEPT !.input = Append(p.input, i)]

\* mutant: any state but Running is resumed, Halted too
push_input_resumes_halted(p, i) ==
    [p EXCEPT !.input = Append(p.input, i), !.state = "Running"]

\* pub fn push_input(&mut self, i: Number)
push_input(p, i) ==
    LET q == [p EXCEPT !.input = Append(p.input, i)]
    IN  IF q.state = "WaitingForInput" THEN [q EXCEPT !.state = "Running"] ELSE q

(***************************************************************************)
(* The programs the model is started with: the programs of the source's    *)
(* doc examples and tests, and every five-word program made of one         *)
(* instruction word, three parameter words and a Halt.                     *)
(***************************************************************************)
BigValue == HalfMax * HalfMax + 8     \* above the half-width range

ExamplePrograms ==
    { <<4, 3, 99, 1>>,
      <<4, 5, 4, 6, 99, 1, 2>>,
      <<3, 5, 4, 5, 99, 0>>,
      <<1, 0, 0, 0, 99>>,
      <<3, 0, 4, 0, 99>>,
      <<109, 19, 204, -34, 99>>,
      <<104, BigValue, 99>> }

OutputHaltPrograms ==
    { <<104, v, 99>> : v \in {0, 1, -1, HalfMax + 1, WordMax, WordMin} }

OpWords ==
    { 1, 1101, 11101, 21101, 2, 1102, 3, 103, 203, 4, 104, 204,
      5, 1105, 6, 1106, 7, 1107, 8, 1108, 9, 109, 209, 99,
      0, 10, 304, 3003, 30099, -1 }

Params == {-1, 0, 4}

OneInstructionPrograms ==
    { <<w, a, b, c, 99>> : w \in OpWords, a \in Params, b \in Params, c \in Params }

RelativePrograms ==
    { <<109, k, w, r, 99, 7>> : k \in {1, 5, -3, WordMax}, w \in {204, 203},
                                r \in {0, 2, -1} }

OverflowPrograms ==
    { <<w, x, y, 5, 99>> : w \in {1101, 1102}, x \in {WordMax, WordMin, 2},
                           y \in {WordMax, 2, -1} }

\* two Inputs and two Outputs, through positions or through the relative base
QueuePrograms ==
    { <<3, 9, 3, 10, 4, 9, 4, 10, 99>>,
      <<203, 9, 203, 10, 204, 9, 204, 10, 99>>,
      <<3, 0, 3, 0, 99>> }

\* a jump that is not the first instruction
JumpPrograms ==
    { <<104, 7, w, c, t, 99, 99, 6>> : w \in {5, 6, 1105, 1106}, c \in {0, 8},
                                       t \in {6, 7} }

Programs ==
    ExamplePrograms \cup OutputHaltPrograms \cup OneInstructionPrograms
        \cup RelativePrograms \cup OverflowPrograms \cup QueuePrograms
        \cup JumpPrograms

InputValues == {0, 1, 42}

Unit == [op |-> "new", bool |-> FALSE, opt |-> None]
Returned(op, b, o) == [op |-> op, bool |-> b, opt |-> o]

\* the fields of Program after an operation
Becomes(q) ==
    /\ program' = q.program
    /\ sp' = q.sp
    /\ input' = q.input
    /\ input_pos' = q.input_pos
    /\ output' = q.output
    /\ output_pos' = q.output_pos
    /\ state' = q.state
    /\ extra_memory' = q.extra_memory
    /\ relative_base' = q.relative_base
    /\ panic' = q.panic

Init ==
    /\ program_vec \in Programs
    /\ overflow_checks \in BOOLEAN
    /\ program = new(program_vec).program
    /\ sp = new(program_vec).sp
    /\ input = new(program_vec).input
    /\ input_pos = new(program_vec).input_pos
    /\ output = new(program_vec).output
    /\ output_pos = new(program_vec).output_pos
    /\ state = new(program_vec).state
    /\ extra_memory = new(program_vec).extra_memory
    /\ relative_base = new(program_vec).relative_base
    /\ panic = "none"
    /\ pc = "idle"
    /\ ret = Unit
    /\ steps = 0

Alive == panic = "none"

PushInput(i) ==
    /\ Alive /\ pc = "idle"
    /\ Len(input) < MaxInput
    /\ Becomes(push_input(Self, i))
    /\ ret' = Returned("push_input", FALSE, None)
    /\ UNCHANGED <<program_vec, overflow_checks, pc, steps>>

\* the owner calls run_till_halted_or_blocked
RunCall ==
    /\ Alive /\ pc = "idle"
    /\ pc' = "run_entry"
    /\ ret' = Returned("run_till_halted_or_blocked", FALSE, None)
    /\ UNCHANGED <<program_vec, program, sp, input, input_pos, output, output_pos,
                   state, extra_memory, relative_base, overflow_checks, panic, steps>>

InRun == pc \in {"run_entry", "run_loop"}

\* while !self.halted_or_blocked() { ... }: the test fails, the call returns
RunReturn ==
    /\ Alive /\ InRun
    /\ halted_or_blocked(Self)
    /\ pc' = "idle"
    /\ UNCHANGED <<program_vec, program, sp, input, input_pos, output, output_pos,
                   state, extra_memory, relative_base, overflow_checks, panic, ret,
                   steps>>

\* one iteration of the loop: self.execute_instruction()
RunExecute ==
    /\ Alive /\ InRun
    /\ ~halted_or_blocked(Self)
    /\ steps < MaxSteps
    /\ Becomes(execute_instruction(Self, overflow_checks))
    /\ pc' = "run_loop"
    /\ steps' = steps + 1
    /\ UNCHANGED <<program_vec, overflow_checks, ret>>

Query(op, b, o) ==
    /\ Alive /\ pc = "idle"
    /\ ret' = Returned(op, b, o)
    /\ UNCHANGED <<program_vec, program, sp, input, input_pos, output, output_pos,
                   state, extra_memory, relative_base, overflow_checks, pc, panic,
                   steps>>

HasOutput == Query("has_output", has_output(Self), None)

LastOutput == Query("last_output", FALSE, last_output(Self))

Halted == Query("halted", halted(Self), None)

HaltedOrBlocked == Query("halted_or_blocked", halted_or_blocked(Self), None)

GetOutput ==
    /\ Alive /\ pc = "idle"
    /\ Becomes(get_output(Self).self)
    /\ ret' = Returned("get_output", FALSE, get_output(Self).result)
    /\ UNCHANGED <<program_vec, overflow_checks, pc, steps>>

Next ==
    \/ \E i \in InputValues : PushInput(i)
    \/ RunCall
    \/ RunReturn
    \/ RunExecute
    \/ HasOutput
    \/ LastOutput
    \/ Halted
    \/ HaltedOrBlocked
    \/ GetOutput

Spec == Init /\ [][Next]_vars

(***************************************************************************)
(* run_till_halted_or_blocked as one call: the loop unrolled, at most fuel *)
(* iterations; and the owner that pushes a whole input sequence first.     *)
(***************************************************************************)
RECURSIVE run_till_halted_or_blocked(_, _, _)
run_till_halted_or_blocked(p, oc, fuel) ==
    IF halted_or_blocked(p) \/ p.panic # "none" \/ fuel = 0
    THEN p
    ELSE run_till_halted_or_blocked(execute_instruction(p, oc), oc, fuel - 1)

RECURSIVE PushAll(_, _)
PushAll(p, values) ==
    IF values = <<>>
    THEN p
    ELSE PushAll(push_input(p, Head(values)), Tail(values))

(***************************************************************************)
(* Vocabulary of the properties.                                           *)
(***************************************************************************)
\* the step is one execution of execute_instruction
Executes == steps' # steps

\* the opcode of the word at the instruction pointer, "invalid" when it
\* does not decode
CurrentOpcode ==
    IF InstructionFrom(get_mem(Self, sp)).ok
    THEN InstructionFrom(get_mem(Self, sp)).val.opcode
    ELSE "invalid"

CurrentWord == get_mem(Self, sp)

\* the Program after the step
SelfAfter ==
    [program |-> program', sp |-> sp', input |-> input', input_pos |-> input_pos',
     output |-> output', output_pos |-> output_pos', state |-> state',
     extra_memory |-> extra_memory', relative_base |-> relative_base',
     panic |-> panic']

IsPrefix(s, t) == Len(s) <= Len(t) /\ SubSeq(t, 1, Len(s)) = s

\* this call of Run has executed nothing yet and an earlier call returned
\* blocked: the owner has pushed input since
ResumedAfterBlock == pc = "run_entry" /\ steps >= 1 /\ state = "Running"

(* C1: a call of run_till_halted_or_blocked returns only in state Halted   *)
(* or WaitingForInput; an instruction is executed only in state Running;   *)
(* once the state is not Running the call executes nothing more and        *)
(* returns.                                                                *)
RunStopsWhenHaltedOrBlocked ==
    [][ /\ (InRun /\ pc' = "idle" => state' \in {"Halted", "WaitingForInput"})
        /\ (Executes => state = "Running")
        /\ (InRun /\ state # "Running" => ~Executes /\ pc' = "idle") ]_vars

RunReturnedBlockedWitness ==
    /\ pc = "idle" /\ ret.op = "run_till_halted_or_blocked"
    /\ state = "WaitingForInput" /\ steps >= 2 /\ panic = "none"

(* C2: an Input instruction attempted in state Running with no unread      *)
(* input sets the state to WaitingForInput and changes nothing else; no    *)
(* other step enters WaitingForInput.                                      *)
BlockedInputChangesOnlyState ==
    [][ /\ (Executes /\ CurrentOpcode = "Input" /\ input_pos >= Len(input)
              => /\ state' = "WaitingForInput"
                 /\ panic' = "none"
                 /\ UNCHANGED <<program, extra_memory, sp, relative_base, input,
                                input_pos, output, output_pos>>)
        /\ (state' = "WaitingForInput" /\ state # "WaitingForInput"
              => /\ Executes /\ state = "Running"
                 /\ CurrentOpcode = "Input" /\ input_pos >= Len(input)) ]_vars

BlockedAfterProgressWitness ==
    state = "WaitingForInput" /\ sp > 0 /\ input_pos = 1 /\ Len(input) = 1

(* C3: push_input in state WaitingForInput sets the state to Running and   *)
(* leaves the instruction pointer; the next instruction executed is the    *)
(* pending Input, which stores the pushed value at its destination and     *)
(* advances the instruction pointer by 2.                                  *)
ResumedInputStoresPushedValue ==
    [][ /\ (state = "WaitingForInput" /\ input' # input
              => state' = "Running" /\ sp' = sp)
        /\ (ResumedAfterBlock /\ Executes
              => /\ CurrentOpcode = "Input"
                 /\ panic' = "none"
                 /\ get_pos(Self, 1, overflow_checks).ok
                 /\ get_mem(SelfAfter, get_pos(Self, 1, overflow_checks).val)
                        = input[input_pos + 1]
                 /\ sp' = sp + 2) ]_vars

(* C4: the state becomes Halted only by executing opcode 99, and once      *)
(* Halted it stays Halted under every public operation.                    *)
HaltedIsTerminal ==
    [][ /\ (state = "Halted" => state' = "Halted")
        /\ (state' = "Halted" /\ state # "Halted"
              => Executes /\ CurrentOpcode = "Halt"
                  /\ TruncRem(CurrentWord, 100) = 99) ]_vars

PushedIntoHaltedWitness ==
    state = "Halted" /\ ret.op = "push_input" /\ Len(input) > input_pos

(* C5: run_till_halted_or_blocked called on a Halted program panics and    *)
(* does not return normally.                                               *)
RunOnHaltedPanics ==
    [][ pc = "run_entry" /\ state = "Halted" => pc' # "idle" ]_vars

FatalErrorAppliesNothing ==
    [][ panic = "none"
        /\ panic' \in {"Unknown opcode", "Unknown parameter mode",
                       "Can't get an immediate position!"}
          => UNCHANGED <<program, extra_memory, sp, relative_base, input_pos,
                         output>> ]_vars

(* C8: get_output returns the oldest unread output and moves the cursor by *)
(* one, or returns None and leaves the cursor when nothing is unread; the  *)
(* output queue only grows at its end; last_output returns the newest      *)
(* output whatever the cursor, and None only when nothing was emitted.     *)
OutputsReadInOrder ==
    [][ /\ IsPrefix(output, output')
        /\ (ret'.op = "get_output"
              => /\ output' = output
                 /\ IF output_pos < Len(output)
                    THEN ret'.opt = Some(output[output_pos + 1])
                            /\ output_pos' = output_pos + 1
                    ELSE ret'.opt = None /\ output_pos' = output_pos)
        /\ (ret'.op # "get_output" => output_pos' = output_pos)
        /\ (ret'.op = "last_output"
              => /\ UNCHANGED <<output, output_pos>>
                 /\ ret'.opt = IF Len(output) > 0
                               THEN Some(output[Len(output)]) ELSE None) ]_vars

LastOutputAfterDrainWitness ==
    /\ ret.op = "last_output" /\ ret.opt = Some(2)
    /\ output = <<1, 2>> /\ output_pos = 2

(* C9: the program Output value; Halt with the value in Immediate mode     *)
(* never panics, emits nothing but value, and after Run has returned it is *)
(* Halted with the output queue holding exactly value.                     *)
IsOutputHalt ==
    Len(program_vec) = 3 /\ program_vec[1] = 104 /\ program_vec[3] = 99

OutputHaltEmitsValue ==
    IsOutputHalt =>
        /\ panic = "none"
        /\ output \in {<<>>, <<program_vec[2]>>}
        /\ (pc = "idle" /\ steps > 0
              => state = "Halted" /\ output = <<program_vec[2]>>)

LargeValueEmittedWitness ==
    /\ program_vec = <<104, BigValue, 99>> /\ BigValue > 2 * HalfMax + 1
    /\ pc = "idle" /\ state = "Halted" /\ output = <<BigValue>>

(* C10: with relative base B, a Relative-mode parameter with raw value R   *)
(* is read from address B + R and written at address B + R;                *)
(* RelativeBaseOffset with parameter value K sets the base to B + K.  The  *)
(* sums are the ones that are words, and B + R the ones that are           *)
(* addresses (not negative).                                               *)
RawParam(n) == get_mem(Self, sp + n)

RelativeAddress(n) == relative_base + RawParam(n)

IsAddress(a) == 0 <= a /\ a <= WordMax

ProbeAddresses ==
    {0, Len(program) - 1, Len(program), 100, WordMod - 1} \cup DOMAIN extra_memory

ProbeValues == {0, -1, WordMax}

WriteThenReadGivesValue ==
    \A a \in ProbeAddresses : \A v \in ProbeValues :
        get_mem(set_mem(Self, a, v), a) = v

ExtensionWrittenWitness ==
    /\ program_vec = <<1102, WordMax, -1, 5, 99>>
    /\ 5 \in DOMAIN extra_memory /\ get_mem(Self, 5) = 0 - WordMax
    /\ get_mem(set_mem(Self, 5, 1), 5) = 1
    /\ state = "Halted"

(* C12: the primary segment keeps the length of the initial word sequence, *)
(* the extension never holds an address below that length, an address      *)
(* reads as the primary cell when below the length, else as its extension  *)
(* entry, else as 0, and an entry enters the extension only by the store   *)
(* of an executed instruction, at the stored address.                      *)
ResolvesOnce(a) ==
    /\ (a < Len(program_vec) => a \notin DOMAIN extra_memory
                                  /\ get_mem(Self, a) = program[a + 1])
    /\ (a >= Len(program_vec) /\ a \in DOMAIN extra_memory
          => get_mem(Self, a) = extra_memory[a])
    /\ (a >= Len(program_vec) /\ a \notin DOMAIN extra_memory
          => get_mem(Self, a) = 0)

StoresAt(n) ==
    /\ get_pos(Self, n, overflow_checks).ok
    /\ DOMAIN extra_memory' \subseteq
          (DOMAIN extra_memory) \cup {get_pos(Self, n, overflow_checks).val}
    /\ \A a \in ProbeAddresses \ {get_pos(Self, n, overflow_checks).val} :
          get_mem(SelfAfter, a) = get_mem(Self, a)

MemoryRegionsDisjoint ==
    /\ [](/\ Len(program) = Len(program_vec)
          /\ (DOMAIN extra_memory) \cap (0 .. (Len(program_vec) - 1)) = {}
          /\ \A a \in DOMAIN extra_memory : Len(program_vec) <= a /\ a < WordMod
          /\ \A a \in ProbeAddresses : ResolvesOnce(a))
    /\ [][ \/ UNCHANGED <<program, extra_memory>>
           \/ /\ Executes
              /\ \/ CurrentOpcode \in {"Add", "Multiply", "LessThan", "Equals"}
                      /\ StoresAt(3)
                 \/ CurrentOpcode = "Input" /\ StoresAt(1) ]_vars

ExtensionBeyondPrimaryWitness ==
    /\ program_vec = <<3, 9, 3, 10, 4, 9, 4, 10, 99>>
    /\ DOMAIN extra_memory = {9, 10}
    /\ extra_memory[9] # 0 /\ extra_memory[10] = 0
    /\ program = program_vec /\ state = "Halted"

(* C13: when p1 + p2 or p1 * p2 of an Add or Multiply leaves the word      *)
(* range, the instruction stores the result reduced modulo 2^width into    *)
(* the signed range at dst and the step raises no error.                   *)
ExactResult ==
    IF CurrentOpcode = "Add"
    THEN param(Self, 1, overflow_checks).val + param(Self, 2, overflow_checks).val
    ELSE param(Self, 1, overflow_checks).val * param(Self, 2, overflow_checks).val

OperandsResolve ==
    /\ param(Self, 1, overflow_checks).ok
    /\ param(Self, 2, overflow_checks).ok
    /\ get_pos(Self, 3, overflow_checks).ok

OverflowWrapsWithoutError ==
    [][ Executes /\ CurrentOpcode \in {"Add", "Multiply"} /\ OperandsResolve
            /\ ~InWord(ExactResult)
          => /\ panic' = "none"
             /\ get_mem(SelfAfter, get_pos(Self, 3, overflow_checks).val)
                    = Wrap(ExactResult) ]_vars

(* C14: an executed instruction that is no Halt, no blocked Input and no   *)
(* taken jump, and whose own operation raises nothing, leaves the          *)
(* instruction pointer advanced by the width of the opcode that was        *)
(* executed, also when it overwrote its own opcode word.                   *)
AdvancingInstruction ==
    /\ Executes
    /\ CurrentOpcode \notin {"invalid", "Halt"}
    /\ ~(CurrentOpcode = "Input" /\ input_pos >= Len(input))
    /\ ~(CurrentOpcode = "JumpIfTrue" /\ JumpTaken(Self, overflow_checks, TRUE))
    /\ ~(CurrentOpcode = "JumpIfFalse" /\ JumpTaken(Self, overflow_checks, FALSE))
    /\ ExecArm(Self, overflow_checks, CurrentOpcode).panic = "none"
    /\ InUsize(sp + Width(CurrentOpcode))

PointerAdvancesByExecutedWidth ==
    [][ AdvancingInstruction
          => panic' = "none" /\ sp' = sp + Width(CurrentOpcode) ]_vars

(* C15: JumpIfTrue with p1 # 0 and JumpIfFalse with p1 = 0 set the         *)
(* instruction pointer to p2 (an address, so not negative) with no width   *)
(* added; otherwise the pointer advances by 3; either way memory, relative *)
(* base and both queues are unchanged.                                     *)
JumpCondition ==
    (param(Self, 1, overflow_checks).val # 0) = (CurrentOpcode = "JumpIfTrue")

JumpSetsPointer ==
    [][ Executes /\ CurrentOpcode \in {"JumpIfTrue", "JumpIfFalse"}
            /\ param(Self, 1, overflow_checks).ok
          => /\ (JumpCondition /\ param(Self, 2, overflow_checks).ok
                    /\ param(Self, 2, overflow_checks).val >= 0
                  => panic' = "none" /\ sp' = param(Self, 2, overflow_checks).val)
             /\ (~JumpCondition /\ InUsize(sp + 3)
                  => panic' = "none" /\ sp' = sp + 3)
             /\ UNCHANGED <<program, extra_memory, relative_base, input, input_pos,
                            output, output_pos>> ]_vars

JumpTakenWitness ==
    /\ program_vec = <<104, 7, 1105, 8, 6, 99, 99, 6>>
    /\ sp = 6 /\ steps = 2 /\ state = "Running" /\ panic = "none"
    /\ output = <<7>>

(* C16: decoding a word w gives opcode w mod 100 and the modes             *)
(* (w / 100) mod 10, (w / 1000) mod 10, (w / 10000) mod 10, with / and mod *)
(* those of the source (truncating, so a negative word has no opcode of    *)
(* the table); it fails exactly when the opcode is not one of 1..9, 99 or  *)
(* a mode digit is not 0, 1 or 2, whatever the opcode; an executed word    *)
(* that fails to decode panics with the decoder's message.                 *)
ClaimedOpcode(n) ==
    CASE n = 1 -> "Add" [] n = 2 -> "Multiply" [] n = 3 -> "Input"
      [] n = 4 -> "Output" [] n = 5 -> "JumpIfTrue" [] n = 6 -> "JumpIfFalse"
      [] n = 7 -> "LessThan" [] n = 8 -> "Equals"
      [] n = 9 -> "RelativeBaseOffset" [] n = 99 -> "Halt"

ClaimedMode(d) ==
    CASE d = 0 -> "Position" [] d = 1 -> "Immediate" [] d = 2 -> "Relative"

WellFormedWord(w) ==
    /\ w >= 0
    /\ (w % 100) \in (1 .. 9) \cup {99}
    /\ ((w \div 100) % 10) \in {0, 1, 2}
    /\ ((w \div 1000) % 10) \in {0, 1, 2}
    /\ ((w \div 10000) % 10) \in {0, 1, 2}

DecodeAgrees(w) ==
    /\ InstructionFrom(w).ok = WellFormedWord(w)
    /\ (WellFormedWord(w) =>
          InstructionFrom(w).val =
              [opcode |-> ClaimedOpcode(w % 100),
               param1 |-> ClaimedMode((w \div 100) % 10),
               param2 |-> ClaimedMode((w \div 1000) % 10),
               param3 |-> ClaimedMode((w \div 10000) % 10)])

\* words beyond the scaled word range: the decoder is the same arithmetic
DecodeProbeWords == {122201, 100000, 100099, 1000004, 40001, -99999, -1199}

DecodeFollowsDigits ==
    /\ [](\A w \in DecodeProbeWords : DecodeAgrees(w))
    /\ [][ Executes =>
             /\ DecodeAgrees(CurrentWord)
             /\ (~WellFormedWord(CurrentWord)
                   => /\ panic' \in {"Unknown opcode", "Unknown parameter mode"}
                      /\ UNCHANGED <<program, extra_memory, sp, relative_base,
                                     input, input_pos, output, output_pos, state>>) ]_vars

BadThirdModeOfHaltWitness ==
    /\ program_vec[1] = 30099 /\ panic = "Unknown parameter mode"
    /\ state = "Running" /\ steps = 1


(* C17: an Input stall persists until input is supplied: while the state   *)
(* is WaitingForInput, every step that is not a push_input leaves the      *)
(* state WaitingForInput and the instruction pointer, memory, relative     *)
(* base and both queues unchanged, and a call of Run executes nothing and  *)
(* returns at its first loop test without moving the output cursor.        *)
InputStallPersists ==
    [][ state = "WaitingForInput" /\ input' = input
          => /\ state' = "WaitingForInput"
             /\ ~Executes
             /\ panic' = "none"
             /\ UNCHANGED <<program, extra_memory, sp, relative_base, input,
                            input_pos, output>>
             /\ (InRun => pc' = "idle" /\ output_pos' = output_pos) ]_vars

RunCalledWhileBlockedWitness ==
    /\ pc = "run_entry" /\ state = "WaitingForInput" /\ panic = "none"
    /\ steps >= 2 /\ input_pos = Len(input) /\ input_pos >= 1


\* the VM given the whole input sequence before its first and only Run
AllInputsFirst ==
    run_till_halted_or_blocked(PushAll(new(program_vec), input),
                               overflow_checks, MaxSteps)

\* a VM that Run has left (blocked, halted or failed) is where the VM given
\* the same inputs up front is
SameAsAllInputsFirst ==
    pc = "idle" /\ (state # "Running" \/ panic # "none")
        => /\ AllInputsFirst.program = program
           /\ AllInputsFirst.extra_memory = extra_memory
           /\ AllInputsFirst.sp = sp
           /\ AllInputsFirst.relative_base = relative_base
           /\ AllInputsFirst.output = output
           /\ AllInputsFirst.state = state
           /\ AllInputsFirst.panic = panic

(* C18: the timing of push_input relative to Run does not affect the       *)
(* computation: a VM that received its inputs at any times reaches the     *)
(* memory, instruction pointer, relative base, output sequence and state   *)
(* of the VM given the same inputs before its first Run; and program       *)
(* [3,0,4,0,99] with input 42 yields output [42] and Halted either way.    *)
PushTimingDoesNotMatter ==
    /\ SameAsAllInputsFirst
    /\ (program_vec = <<3, 0, 4, 0, 99>> /\ input = <<42>>
          => /\ panic = "none"
             /\ AllInputsFirst.panic = "none"
             /\ AllInputsFirst.state = "Halted"
             /\ AllInputsFirst.output = <<42>>
             /\ (pc = "idle" /\ input_pos = 1 /\ state # "Running"
                   => state = "Halted" /\ output = <<42>>))


(* C19: in every reachable state, state WaitingForInput implies that the   *)
(* word at the instruction pointer decodes to opcode Input and that the    *)
(* input read cursor equals the length of the input queue; state Halted    *)
(* implies that the word at the instruction pointer decodes to opcode      *)
(* Halt.                                                                   *)
StoppedAtItsInstruction ==
    /\ (state = "WaitingForInput"
          => CurrentOpcode = "Input" /\ input_pos = Len(input))
    /\ (state = "Halted" => CurrentOpcode = "Halt")

BlockedAtSecondInputWitness ==
    /\ state = "WaitingForInput" /\ CurrentWord = 203 /\ sp = 2
    /\ input_pos = 1 /\ Len(input) = 1 /\ pc = "idle"


(* C20: once the state is Halted no public operation changes memory, the   *)
(* instruction pointer, the relative base, the input read cursor or the    *)
(* contents of the output queue; the input queue can only grow, by         *)
(* push_input, and the output read cursor can only advance, by get_output. *)
HaltedFreezesMachine ==
    [][ state = "Halted"
          => /\ UNCHANGED <<program, extra_memory, sp, relative_base, input_pos,
                            output, panic>>
             /\ ~Executes
             /\ IsPrefix(input, input')
             /\ (input' # input => ret'.op = "push_input")
             /\ output_pos' >= output_pos
             /\ (output_pos' # output_pos => ret'.op = "get_output") ]_vars

HaltedThenPushedAndReadWitness ==
    /\ state = "Halted" /\ ret.op = "get_output" /\ ret.opt.some
    /\ output_pos = 2 /\ Len(output) = 2
    /\ Len(input) > input_pos

====
